---- MODULE Spec2Model ----
(***************************************************************************)
(* A model of the bencode Encoder of src/src/encoder.rs.                   *)
(*                                                                         *)
(* The Encoder owns a StateTracker (the structural automaton) and an       *)
(* output byte buffer.  Containers are built by nested callbacks; the      *)
(* model keeps an explicit stack of the callbacks that are running, so a   *)
(* container operation is an Enter step (everything the handler does up    *)
(* to the call of its callback) and a Return step (everything it does once *)
(* the callback has returned).  The caller's code is arbitrary: which      *)
(* operation comes next, and what each callback returns, is chosen         *)
(* nondeterministically among what the borrow rules of the API allow.      *)
(*                                                                         *)
(* Bytes are numbers 0..255; a byte string is a sequence of them.          *)
(* state_tracker.rs is not among the sources; the automaton is modelled    *)
(* from section 4.1 of the specification.                                  *)
(***************************************************************************)
EXTENDS Integers, Sequences, FiniteSets, TLC

VARIABLES
    encs,      \* the live Encoders: encs[1] is the caller's, the others are
               \* the sub-Encoders of the unsorted emit_pair calls in progress
    calls,     \* the callbacks in progress, outermost first
    ev,        \* what the last step was and what it returned
    cfg,       \* fixed in a run: max_depth, the depth the caller's Encoder
               \* was configured with, and limit: operations are not started
               \* once this many bytes are buffered
    pc,        \* "run", or "done" once get_output has consumed the Encoder
    got        \* the result of get_output

vars == <<encs, calls, ev, cfg, pc, got>>

-----------------------------------------------------------------------------
(* Bounds of the model *)

\* the byte limit of the runs of Spec and of SpecSorted
MaxOut == 6
MaxOutSorted == 9
\* the byte limit of the runs of SpecStaged
MaxOutStaged == 10
\* the configured maximum depths tried are 0..MaxD and the default
MaxD == 1

-----------------------------------------------------------------------------
(* Bytes *)

CH_l == 108
CH_d == 100
CH_e == 101
CH_i == 105
CH_colon == 58
CH_minus == 45
CH_0 == 48

\* the integers, byte strings and dictionary keys the caller passes
IntVals == {25}
StrVals == {<<97, 98>>}
KeyVals == {<<97>>, <<98>>}

RECURSIVE Digits(_)
Digits(n) == IF n < 10 THEN <<CH_0 + n>>
             ELSE Digits(n \div 10) \o <<CH_0 + (n % 10)>>

\* Integer::write_to: the decimal text of a value
write_to(n) == IF n < 0 THEN <<CH_minus>> \o Digits(0 - n) ELSE Digits(n)

-----------------------------------------------------------------------------
(* The structural automaton (StateTracker), from the specification *)

Ok == "Ok"

DefaultMaxDepth == 2048

NewTracker == [stack |-> <<>>, max_depth |-> DefaultMaxDepth,
               err |-> Ok, done |-> FALSE]

set_max_depth(st, d) == [st EXCEPT !.max_depth = d]

check_error(st) == st.err

\* latch_err(result): keeps the first error; returns the latched error if
\* there is one, else the result given
latch_err(st, r) ==
    IF st.err # Ok THEN [state |-> st, res |-> st.err]
    ELSE IF r # Ok THEN [state |-> [st EXCEPT !.err = r], res |-> r]
    ELSE [state |-> st, res |-> Ok]

Fail(st, e) == [state |-> [st EXCEPT !.err = e], res |-> e]
Accept(st) == [state |-> st, res |-> Ok]

Top(s) == s[Len(s)]
Pop(s) == SubSeq(s, 1, Len(s) - 1)
SetTop(s, x) == [s EXCEPT ![Len(s)] = x]

\* a value token has been taken where the top frame expects one
ValueTaken(stack) ==
    IF stack # <<>> /\ Top(stack) = "DictExpectingValue"
    THEN SetTop(stack, "DictExpectingKey") ELSE stack

ObserveOpen(st, frame) ==
    IF st.stack = <<>> /\ st.done THEN Fail(st, "ExtraTopLevelValue")
    ELSE IF st.stack # <<>> /\ Top(st.stack) = "DictExpectingKey"
    THEN Fail(st, "UnexpectedToken")
    ELSE IF Len(st.stack) + 1 > st.max_depth THEN Fail(st, "DepthExceeded")
    ELSE Accept([st EXCEPT !.stack = Append(ValueTaken(st.stack), frame)])

ObserveScalar(st) ==
    IF st.stack = <<>>
    THEN IF st.done THEN Fail(st, "ExtraTopLevelValue")
         ELSE Accept([st EXCEPT !.done = TRUE])
    ELSE IF Top(st.stack) = "DictExpectingKey"
    THEN Accept([st EXCEPT !.stack = SetTop(st.stack, "DictExpectingValue")])
    ELSE Accept([st EXCEPT !.stack = ValueTaken(st.stack)])

ObserveClose(st) ==
    IF st.stack = <<>>
    THEN Fail(st, IF st.done THEN "ExtraTopLevelValue" ELSE "UnexpectedToken")
    ELSE IF Top(st.stack) = "DictExpectingValue" THEN Fail(st, "UnexpectedToken")
    ELSE Accept([st EXCEPT !.stack = Pop(st.stack),
                           !.done = IF Len(st.stack) = 1 THEN TRUE ELSE @])

observe_token(st, token) ==
    IF st.err # Ok THEN [state |-> st, res |-> st.err]
    ELSE IF token.kind = "List" THEN ObserveOpen(st, "List")
    ELSE IF token.kind = "Dict" THEN ObserveOpen(st, "DictExpectingKey")
    ELSE IF token.kind = "End" THEN ObserveClose(st)
    ELSE ObserveScalar(st)

observe_eof(st) ==
    IF st.err # Ok THEN [state |-> st, res |-> st.err]
    ELSE IF st.stack = <<>> /\ st.done THEN Accept(st)
    ELSE Fail(st, "IncompleteAtFinalize")

remaining_depth(st) == st.max_depth - Len(st.stack)

-----------------------------------------------------------------------------
(* The Encoder *)

Token(kind, s) == [kind |-> kind, s |-> s]

NewEncoder == [state |-> NewTracker, output |-> <<>>]

with_max_depth(enc, d) == [enc EXCEPT !.state = set_max_depth(enc.state, d)]

\* the bytes emit_token writes for an accepted token
TokenBytes(token) ==
    CASE token.kind = "List" -> <<CH_l>>
      [] token.kind = "Dict" -> <<CH_d>>
      [] token.kind = "String" ->
            write_to(Len(token.s)) \o <<CH_colon>> \o token.s
      [] token.kind = "Num" -> <<CH_i>> \o token.s \o <<CH_e>>
      [] token.kind = "End" -> <<CH_e>>

\* emit_token with the bytes written whatever the automaton answers
emit_token_writes_first(enc, token) ==
    IF check_error(enc.state) # Ok
    THEN [enc |-> [enc EXCEPT !.output = @ \o TokenBytes(token)],
          res |-> check_error(enc.state)]
    ELSE LET o == observe_token(enc.state, token) IN
         [enc |-> [state |-> o.state,
                   output |-> enc.output \o TokenBytes(token)],
          res |-> o.res]

emit_token(enc, token) ==
    IF check_error(enc.state) # Ok
    THEN [enc |-> enc, res |-> check_error(enc.state)]
    ELSE LET o == observe_token(enc.state, token) IN
         IF o.res # Ok
         THEN [enc |-> [enc EXCEPT !.state = o.state], res |-> o.res]
         ELSE [enc |-> [state |-> o.state,
                        output |-> enc.output \o TokenBytes(token)],
               res |-> Ok]

\* emit_int with the answer of the automaton dropped
emit_int_unchecked(enc, value) ==
    LET o == observe_token(enc.state, Token("Num", <<>>)) IN
    [enc |-> [state |-> o.state,
              output |-> enc.output \o <<CH_i>> \o write_to(value)
                                    \o <<CH_e>>],
     res |-> Ok]

emit_int(enc, value) ==
    IF check_error(enc.state) # Ok
    THEN [enc |-> enc, res |-> check_error(enc.state)]
    ELSE LET o == observe_token(enc.state, Token("Num", <<>>)) IN
         IF o.res # Ok
         THEN [enc |-> [enc EXCEPT !.state = o.state], res |-> o.res]
         ELSE [enc |-> [state |-> o.state,
                        output |-> enc.output \o <<CH_i>> \o write_to(value)
                                              \o <<CH_e>>],
               res |-> Ok]

emit_bytes(enc, value) == emit_token(enc, Token("String", value))

emit_str(enc, value) == emit_bytes(enc, value)

\* emit_list taking back its open token when the callback has failed
emit_list_close_rollback(enc, ret) ==
    IF ret # Ok
    THEN [enc |-> [enc EXCEPT !.output = SubSeq(@, 1, Len(@) - 1)],
          res |-> ret]
    ELSE emit_token(enc, Token("End", <<>>))

\* emit_list and emit_dict once the callback has returned ret: a failure
\* is propagated, else the End token is emitted
emit_list_close(enc, ret) ==
    IF ret # Ok THEN [enc |-> enc, res |-> ret]
    ELSE emit_token(enc, Token("End", <<>>))

emit_dict_close(enc, ret) ==
    IF ret # Ok THEN [enc |-> enc, res |-> ret]
    ELSE emit_token(enc, Token("End", <<>>))

\* SortedDictEncoder::emit_pair up to the call of value_cb: the key is
\* emitted and the state is replaced by a new StateTracker; old is the
\* state set aside
sorted_pair_open(enc, key) ==
    LET r == emit_token(enc, Token("String", key)) IN
    IF r.res # Ok THEN [enc |-> r.enc, res |-> r.res, old |-> r.enc.state]
    ELSE [enc |-> [r.enc EXCEPT !.state = NewTracker], res |-> Ok,
          old |-> r.enc.state]

\* emit_pair returning the 'no value' error without latching it
sorted_pair_close_unlatched(enc, old_state, value_written, ret) ==
    LET l1 == latch_err(old_state, check_error(enc.state))
    IN  IF l1.res # Ok THEN [enc |-> [enc EXCEPT !.state = l1.state], res |-> l1.res]
        ELSE IF ~value_written
        THEN [enc |-> [enc EXCEPT !.state = l1.state], res |-> "NoValueEmitted"]
        ELSE [enc |-> [enc EXCEPT !.state = l1.state], res |-> ret]

\* emit_pair leaving the temporary state installed when it holds an error
sorted_pair_close_keeps_temp(enc, old_state, value_written, ret) ==
    LET l2 == latch_err(old_state, "NoValueEmitted") IN
    IF check_error(enc.state) # Ok
    THEN [enc |-> enc, res |-> check_error(enc.state)]
    ELSE IF ~value_written
    THEN [enc |-> [enc EXCEPT !.state = l2.state], res |-> l2.res]
    ELSE [enc |-> [enc EXCEPT !.state = old_state], res |-> ret]

\* SortedDictEncoder::emit_pair once value_cb has returned ret
sorted_pair_close(enc, old_state, value_written, ret) ==
    LET temp_state == enc.state
        l1 == latch_err(old_state, check_error(temp_state))
        l2 == latch_err(l1.state, "NoValueEmitted")
    IN  IF l1.res # Ok THEN [enc |-> [enc EXCEPT !.state = l1.state], res |-> l1.res]
        ELSE IF ~value_written
        THEN [enc |-> [enc EXCEPT !.state = l2.state], res |-> l2.res]
        ELSE [enc |-> [enc EXCEPT !.state = l1.state], res |-> ret]

\* byte-lexicographic order of byte strings (Ord for Vec<u8>), the order of
\* the BTreeMap's iteration
RECURSIVE LexLess(_, _)
LexLess(a, b) ==
    IF b = <<>> THEN FALSE
    ELSE IF a = <<>> THEN TRUE
    ELSE IF Head(a) # Head(b) THEN Head(a) < Head(b)
    ELSE LexLess(Tail(a), Tail(b))

\* the last key of the order in place of the first
LastKey(keys) == CHOOSE k \in keys : \A x \in keys \ {k} : LexLess(x, k)

FirstKey(keys) == CHOOSE k \in keys : \A x \in keys \ {k} : LexLess(k, x)

Without(f, k) == [x \in DOMAIN f \ {k} |-> f[x]]

\* the loop of emit_unsorted_dict over the staged entries
RECURSIVE flush(_, _)
flush(enc, content) ==
    IF DOMAIN content = {} THEN [enc |-> enc, res |-> Ok]
    ELSE LET k == FirstKey(DOMAIN content)
             r == emit_bytes(enc, k)
             o == observe_token(r.enc.state, Token("Num", <<>>))
         IN  IF r.res # Ok THEN r
             ELSE IF o.res # Ok
             THEN [enc |-> [r.enc EXCEPT !.state = o.state], res |-> o.res]
             ELSE flush([state |-> o.state,
                         output |-> r.enc.output \o content[k]],
                        Without(content, k))

\* emit_unsorted_dict once the callback has returned ret; content and error
\* are the UnsortedDictEncoder's
emit_unsorted_dict_close(enc, content, error, ret) ==
    IF ret # Ok THEN [enc |-> enc, res |-> ret]
    ELSE IF error # Ok THEN [enc |-> enc, res |-> error]
    ELSE LET f == flush(enc, content) IN
         IF f.res # Ok THEN f
         ELSE emit_token(f.enc, Token("End", <<>>))

\* UnsortedDictEncoder::emit_pair up to the call of value_cb: "run" when
\* the callback is to be run, else the error returned at once
unsorted_pair_open(content, error, key) ==
    IF error # Ok THEN [error |-> error, res |-> error]
    ELSE IF key \in DOMAIN content
    THEN [error |-> "DuplicateKey", res |-> "DuplicateKey"]
    ELSE [error |-> error, res |-> "run"]

\* UnsortedDictEncoder::emit_pair once value_cb has returned ret; encoder
\* is the sub-Encoder of the value
unsorted_pair_close(content, key, encoder, value_written, ret) ==
    LET error == IF ~value_written THEN "NoValueEmitted"
                 ELSE observe_eof(encoder.state).res
    IN  IF ret # Ok THEN [content |-> content, error |-> ret, res |-> ret]
        ELSE IF error # Ok
        THEN [content |-> content, error |-> error, res |-> error]
        ELSE [content |-> (key :> encoder.output) @@ content,
              error |-> Ok, res |-> Ok]

\* get_output without observe_eof
get_output_unchecked(enc) ==
    [state |-> enc.state, res |-> Ok, bytes |-> enc.output]

get_output(enc) ==
    LET o == observe_eof(enc.state) IN
    IF o.res # Ok THEN [state |-> o.state, res |-> o.res, bytes |-> <<>>]
    ELSE [state |-> o.state, res |-> Ok, bytes |-> enc.output]

\* the build callback of the example of emit_dict, for a list of pairs
\* [key, val]: e.emit_pair(key, |e| e.emit_int(val))? for each in turn
RECURSIVE sorted_pairs_cb(_, _)
sorted_pairs_cb(enc, ps) ==
    IF ps = <<>> THEN [enc |-> enc, res |-> Ok]
    ELSE LET o == sorted_pair_open(enc, Head(ps).key)
             v == emit_int(o.enc, Head(ps).val)
             c == sorted_pair_close(v.enc, o.old, TRUE, v.res)
         IN  IF o.res # Ok THEN [enc |-> o.enc, res |-> o.res]
             ELSE IF c.res # Ok THEN c
             ELSE sorted_pairs_cb(c.enc, Tail(ps))

\* Encoder::new().with_max_depth(d), emit_dict with that callback, then
\* get_output if emit_dict succeeded
sorted_dict_run(d, ps) ==
    LET a == emit_token(with_max_depth(NewEncoder, d), Token("Dict", <<>>))
        b == sorted_pairs_cb(a.enc, ps)
        c == emit_dict_close(b.enc, b.res)
    IN  IF a.res # Ok THEN [res |-> a.res, bytes |-> <<>>]
        ELSE IF c.res # Ok THEN [res |-> c.res, bytes |-> <<>>]
        ELSE [res |-> get_output(c.enc).res, bytes |-> get_output(c.enc).bytes]

-----------------------------------------------------------------------------
(* The callbacks in progress *)

NoContent == [k \in {} |-> <<>>]

\* one record shape for all the callbacks; a field a kind does not have
\* keeps its initial value.  The last four fields are history: they record
\* what the caller did and change nothing the Encoder does.
Frame(kind) == [kind |-> kind,
                old_state |-> NewTracker,     \* pair: the state set aside
                value_written |-> FALSE,      \* pair, upair
                used |-> FALSE,               \* pair, upair: the
                                              \* SingleItemEncoder is consumed
                key |-> <<>>,                 \* pair, upair
                content |-> NoContent,        \* udict: the staged entries
                error |-> Ok,                 \* udict
                remaining_depth |-> 0,        \* udict
                out0 |-> <<>>,   \* the output when the operation was called
                val |-> <<>>,    \* pair, upair: <<v>> once the value callback
                                 \* has called emit_int(v)
                ints |-> <<>>,   \* dict, udict: the pairs [key, val] built so
                                 \* far by callbacks |e| e.emit_int(val)
                plain |-> TRUE]  \* dict, udict: the build callback has only
                                 \* called emit_pair with such callbacks, on
                                 \* distinct keys; pair, upair: the value
                                 \* callback has only called emit_int

Cur == Top(encs)

\* what the caller holds: "root" is the Encoder outside every callback
Where == IF calls = <<>> THEN "root" ELSE Top(calls).kind

TopUsed == IF calls = <<>> THEN FALSE ELSE Top(calls).used

\* the caller holds something it can emit a value on: the Encoder itself
\* (at the root or in a list callback) or a SingleItemEncoder not yet used
CanEmit ==
    /\ pc = "run"
    /\ Where \in {"root", "list", "pair", "upair"}
    /\ Where \in {"pair", "upair"} => ~TopUsed

\* a SingleItemEncoder method sets value_written and consumes self; val is
\* <<v>> for emit_int(v) and <<>> for the other methods
Consumed(cs, val) ==
    IF cs # <<>> /\ Top(cs).kind \in {"pair", "upair"}
    THEN SetTop(cs, [Top(cs) EXCEPT !.value_written = TRUE, !.used = TRUE,
                                    !.val = val, !.plain = (val # <<>>)])
    ELSE cs

RECURSIVE SumLen(_)
SumLen(s) == IF s = <<>> THEN 0 ELSE Len(Head(s)) + SumLen(Tail(s))

RECURSIVE StagedLen(_)
StagedLen(f) ==
    IF DOMAIN f = {} THEN 0
    ELSE LET k == CHOOSE x \in DOMAIN f : TRUE IN
         Len(f[k]) + StagedLen(Without(f, k))

RECURSIVE StagedIn(_)
StagedIn(cs) == IF cs = <<>> THEN 0
                ELSE StagedLen(Head(cs).content) + StagedIn(Tail(cs))

\* the bytes held in the output buffers and the staging maps
Buffered ==
    SumLen([i \in 1..Len(encs) |-> encs[i].output]) + StagedIn(calls)

Room == Buffered < cfg.limit

\* the record of a step: the operation, whether it was called and returned
\* at once ("call"), called with its callback now running ("enter") or
\* returned after its callback ("return"), its result, the output and the
\* latched error of its Encoder when the step began, and whether the result
\* is the automaton's refusal of the token the step offered.  built and
\* ints are history: when a dictionary operation returns whose build
\* callback was plain (see Frame) and returned success, built is the
\* operation and ints its pairs; get_output repeats them when it follows
\* such an operation that was the first of the Encoder.  ret is what the
\* callback returned, for a return step; early is history: the build
\* callback of some container operation has returned a failure
Event(op, at, res, rej) ==
    [op |-> op, at |-> at, res |-> res, rej |-> rej,
     out0 |-> Cur.output, err0 |-> check_error(Cur.state),
     built |-> "none", ints |-> <<>>, ret |-> "none", early |-> ev.early]

EncoderOps == {"emit_int", "emit_str", "emit_list", "emit_dict",
               "emit_unsorted_dict"}

ContainerOps == {"emit_list", "emit_dict", "emit_unsorted_dict"}

-----------------------------------------------------------------------------
(* The steps *)

Init ==
    /\ \E d \in (0..MaxD) \cup {DefaultMaxDepth} :
          /\ encs = <<with_max_depth(NewEncoder, d)>>
          /\ cfg = [max_depth |-> d, limit |-> MaxOut]
    /\ calls = <<>>
    /\ ev = [op |-> "new", at |-> "call", res |-> Ok, rej |-> FALSE,
             out0 |-> <<>>, err0 |-> Ok, built |-> "none", ints |-> <<>>,
             ret |-> "none", early |-> FALSE]
    /\ pc = "run"
    /\ got = <<>>

\* a scalar operation, or a container operation refused at its open token,
\* called and returned in one step
Called(op, r, val) ==
    /\ encs' = SetTop(encs, r.enc)
    /\ calls' = Consumed(calls, val)
    /\ ev' = Event(op, "call", r.res, r.res # Ok)
    /\ UNCHANGED <<cfg, pc, got>>

\* a container operation whose open token is accepted: its callback runs
Entered(op, r, frame) ==
    /\ encs' = SetTop(encs, r.enc)
    /\ calls' = Append(Consumed(calls, <<>>),
                       [frame EXCEPT !.out0 = Cur.output])
    /\ ev' = Event(op, "enter", "pending", FALSE)
    /\ UNCHANGED <<cfg, pc, got>>

\* what a callback may return: success, a failure of its own, or the
\* failure the operation before its return gave it
CbRet == {Ok, "CallbackFailure"} \cup ({ev.res} \ {"pending"})

CallEmitInt ==
    /\ CanEmit /\ Room
    /\ \E v \in IntVals : Called("emit_int", emit_int(Cur, v), <<v>>)

CallEmitStr ==
    /\ CanEmit /\ Room
    /\ \E s \in StrVals : Called("emit_str", emit_str(Cur, s), <<>>)

EnterList ==
    /\ CanEmit /\ Room
    /\ LET r == emit_token(Cur, Token("List", <<>>)) IN
       IF r.res # Ok THEN Called("emit_list", r, <<>>)
       ELSE Entered("emit_list", r, Frame("list"))

ReturnList ==
    /\ pc = "run" /\ Where = "list"
    /\ \E ret \in CbRet :
         LET r == emit_list_close(Cur, ret) IN
         /\ encs' = SetTop(encs, r.enc)
         /\ calls' = Pop(calls)
         /\ ev' = [Event("emit_list", "return", r.res,
                         ret = Ok /\ r.res # Ok)
                     EXCEPT !.out0 = Top(calls).out0, !.ret = ret,
                            !.early = @ \/ ret # Ok]
    /\ UNCHANGED <<cfg, pc, got>>

EnterDict ==
    /\ CanEmit /\ Room
    /\ LET r == emit_token(Cur, Token("Dict", <<>>)) IN
       IF r.res # Ok THEN Called("emit_dict", r, <<>>)
       ELSE Entered("emit_dict", r, Frame("dict"))

ReturnDict ==
    /\ pc = "run" /\ Where = "dict"
    /\ \E ret \in CbRet :
         LET f == Top(calls)
             r == emit_dict_close(Cur, ret)
         IN  /\ encs' = SetTop(encs, r.enc)
             /\ calls' = Pop(calls)
             /\ ev' = [Event("emit_dict", "return", r.res,
                             ret = Ok /\ r.res # Ok)
                         EXCEPT !.out0 = f.out0, !.ret = ret,
                                !.early = @ \/ ret # Ok,
                                !.built = IF f.plain /\ ret = Ok
                                          THEN "emit_dict" ELSE "none",
                                !.ints = f.ints]
    /\ UNCHANGED <<cfg, pc, got>>

EnterPair ==
    /\ pc = "run" /\ Where = "dict" /\ Room
    /\ \E key \in KeyVals :
         LET f == Top(calls)
             r == sorted_pair_open(Cur, key)
         IN  /\ encs' = SetTop(encs, r.enc)
             /\ IF r.res # Ok
                THEN /\ calls' = SetTop(calls, [f EXCEPT !.plain = FALSE])
                     /\ ev' = Event("emit_pair", "call", r.res, TRUE)
                ELSE /\ calls' = Append(calls, [Frame("pair") EXCEPT
                                                  !.old_state = r.old,
                                                  !.key = key,
                                                  !.out0 = Cur.output])
                     /\ ev' = Event("emit_pair", "enter", "pending", FALSE)
    /\ UNCHANGED <<cfg, pc, got>>

\* history: the builder's frame once a pair's value callback has returned
PairDone(builder, f, ret) ==
    IF f.plain /\ f.val # <<>> /\ ret = ev.res
    THEN [builder EXCEPT !.ints = Append(@, [key |-> f.key, val |-> f.val[1]])]
    ELSE [builder EXCEPT !.plain = FALSE]

ReturnPair ==
    /\ pc = "run" /\ Where = "pair"
    /\ \E ret \in CbRet :
         LET f == Top(calls)
             r == sorted_pair_close(Cur, f.old_state, f.value_written, ret)
         IN  /\ encs' = SetTop(encs, r.enc)
             /\ calls' = SetTop(Pop(calls), PairDone(Top(Pop(calls)), f, ret))
             /\ ev' = [Event("emit_pair", "return", r.res, FALSE)
                         EXCEPT !.out0 = f.out0, !.ret = ret]
    /\ UNCHANGED <<cfg, pc, got>>

EnterUnsortedDict ==
    /\ CanEmit /\ Room
    /\ LET r == emit_token(Cur, Token("Dict", <<>>)) IN
       IF r.res # Ok THEN Called("emit_unsorted_dict", r, <<>>)
       ELSE Entered("emit_unsorted_dict", r,
                    [Frame("udict") EXCEPT
                       !.remaining_depth = remaining_depth(r.enc.state)])

ReturnUnsortedDict ==
    /\ pc = "run" /\ Where = "udict"
    /\ \E ret \in CbRet :
         LET f == Top(calls)
             r == emit_unsorted_dict_close(Cur, f.content, f.error, ret)
         IN  /\ encs' = SetTop(encs, r.enc)
             /\ calls' = Pop(calls)
             /\ ev' = [Event("emit_unsorted_dict", "return", r.res,
                             ret = Ok /\ f.error = Ok /\ r.res # Ok)
                         EXCEPT !.out0 = f.out0, !.ret = ret,
                                !.early = @ \/ ret # Ok,
                                !.built = IF f.plain /\ ret = Ok
                                          THEN "emit_unsorted_dict"
                                          ELSE "none",
                                !.ints = f.ints]
    /\ UNCHANGED <<cfg, pc, got>>

EnterUnsortedPair ==
    /\ pc = "run" /\ Where = "udict" /\ Room
    /\ \E key \in KeyVals :
         LET f == Top(calls)
             r == unsorted_pair_open(f.content, f.error, key)
         IN  IF r.res # "run"
             THEN /\ calls' = SetTop(calls, [f EXCEPT !.error = r.error,
                                                      !.plain = FALSE])
                  /\ ev' = Event("unsorted_emit_pair", "call", r.res, FALSE)
                  /\ encs' = encs
             ELSE /\ encs' = Append(encs, with_max_depth(NewEncoder,
                                                         f.remaining_depth))
                  /\ calls' = Append(calls, [Frame("upair") EXCEPT
                                               !.key = key,
                                               !.out0 = Cur.output])
                  /\ ev' = Event("unsorted_emit_pair", "enter", "pending",
                                 FALSE)
    /\ UNCHANGED <<cfg, pc, got>>

ReturnUnsortedPair ==
    /\ pc = "run" /\ Where = "upair"
    /\ \E ret \in CbRet :
         LET f == Top(calls)
             ud == Top(Pop(calls))
             r == unsorted_pair_close(ud.content, f.key, Cur,
                                      f.value_written, ret)
         IN  /\ encs' = Pop(encs)
             /\ calls' = SetTop(Pop(calls),
                                [PairDone(ud, f, ret) EXCEPT
                                    !.content = r.content,
                                    !.error = r.error])
             /\ ev' = [Event("unsorted_emit_pair", "return", r.res, FALSE)
                         EXCEPT !.out0 = f.out0, !.ret = ret]
    /\ UNCHANGED <<cfg, pc, got>>

GetOutput ==
    /\ pc = "run" /\ Where = "root"
    /\ LET r == get_output(Cur) IN
       /\ encs' = SetTop(encs, [Cur EXCEPT !.state = r.state])
       /\ got' = r.bytes
       /\ ev' = [Event("get_output", "call", r.res, r.res # Ok)
                   EXCEPT !.built = IF ev.out0 = <<>> THEN ev.built
                                    ELSE "none",
                          !.ints = ev.ints]
    /\ pc' = "done"
    /\ UNCHANGED <<calls, cfg>>

Next ==
    \/ CallEmitInt
    \/ CallEmitStr
    \/ EnterList
    \/ ReturnList
    \/ EnterDict
    \/ ReturnDict
    \/ EnterPair
    \/ ReturnPair
    \/ EnterUnsortedDict
    \/ ReturnUnsortedDict
    \/ EnterUnsortedPair
    \/ ReturnUnsortedPair
    \/ GetOutput

Spec == Init /\ [][Next]_vars

\* the sorted-dictionary builder alone, on an Encoder of the default depth
InitSorted ==
    /\ encs = <<NewEncoder>>
    /\ cfg = [max_depth |-> DefaultMaxDepth, limit |-> MaxOutSorted]
    /\ calls = <<>>
    /\ ev = [op |-> "new", at |-> "call", res |-> Ok, rej |-> FALSE,
             out0 |-> <<>>, err0 |-> Ok, built |-> "none", ints |-> <<>>,
             ret |-> "none", early |-> FALSE]
    /\ pc = "run"
    /\ got = <<>>

NextSorted ==
    \/ CallEmitInt
    \/ EnterList
    \/ ReturnList
    \/ EnterDict
    \/ ReturnDict
    \/ EnterPair
    \/ ReturnPair
    \/ GetOutput

SpecSorted == InitSorted /\ [][NextSorted]_vars

\* the two dictionary builders alone, on an Encoder of the default depth
InitStaged ==
    /\ encs = <<NewEncoder>>
    /\ cfg = [max_depth |-> DefaultMaxDepth, limit |-> MaxOutStaged]
    /\ calls = <<>>
    /\ ev = [op |-> "new", at |-> "call", res |-> Ok, rej |-> FALSE,
             out0 |-> <<>>, err0 |-> Ok, built |-> "none", ints |-> <<>>,
             ret |-> "none", early |-> FALSE]
    /\ pc = "run"
    /\ got = <<>>

NextStaged ==
    \/ EnterDict
    \/ ReturnDict
    \/ EnterPair
    \/ ReturnPair
    \/ EnterUnsortedDict
    \/ ReturnUnsortedDict
    \/ EnterUnsortedPair
    \/ ReturnUnsortedPair
    \/ GetOutput

SpecStaged == InitStaged /\ [][NextStaged]_vars

-----------------------------------------------------------------------------
(* The wire format: a reader of the grammar of one value *)

IsDigit(b) == b >= CH_0 /\ b <= CH_0 + 9

\* the index after the digits that start at i
RECURSIVE SkipDigits(_, _)
SkipDigits(s, i) ==
    IF i <= Len(s) /\ IsDigit(s[i]) THEN SkipDigits(s, i + 1) ELSE i

\* the number written by the digits s[i..j-1]
RECURSIVE NumberAt(_, _, _)
NumberAt(s, i, j) ==
    IF j <= i THEN 0 ELSE NumberAt(s, i, j - 1) * 10 + (s[j - 1] - CH_0)

\* the index after the byte string that starts at i, or 0 if there is none
ReadString(s, i) ==
    LET j == SkipDigits(s, i) IN
    IF j = i \/ j > Len(s) THEN 0
    ELSE IF s[j] # CH_colon THEN 0
    ELSE IF j + NumberAt(s, i, j) > Len(s) THEN 0
    ELSE j + NumberAt(s, i, j) + 1

\* the index after the integer that starts at i, or 0 if there is none
ReadInt(s, i) ==
    LET a == IF i + 1 <= Len(s) /\ s[i + 1] = CH_minus THEN i + 2 ELSE i + 1
        j == SkipDigits(s, a)
    IN  IF j = a \/ j > Len(s) THEN 0
        ELSE IF s[j] # CH_e THEN 0
        ELSE j + 1

RECURSIVE ReadValue(_, _), ReadItems(_, _), ReadPairs(_, _)

\* the index after the value that starts at i, or 0 if there is none
ReadValue(s, i) ==
    IF i > Len(s) THEN 0
    ELSE IF s[i] = CH_i THEN ReadInt(s, i)
    ELSE IF s[i] = CH_l THEN ReadItems(s, i + 1)
    ELSE IF s[i] = CH_d THEN ReadPairs(s, i + 1)
    ELSE IF IsDigit(s[i]) THEN ReadString(s, i)
    ELSE 0

\* the items of a list up to and including its 'e'
ReadItems(s, i) ==
    IF i > Len(s) THEN 0
    ELSE IF s[i] = CH_e THEN i + 1
    ELSE LET j == ReadValue(s, i) IN
         IF j = 0 THEN 0 ELSE ReadItems(s, j)

\* the pairs of a dictionary up to and including its 'e': each key a byte
\* string, followed by one value
ReadPairs(s, i) ==
    IF i > Len(s) THEN 0
    ELSE IF s[i] = CH_e THEN i + 1
    ELSE IF ~IsDigit(s[i]) THEN 0
    ELSE LET j == ReadString(s, i) IN
         IF j = 0 THEN 0
         ELSE LET k == ReadValue(s, j) IN
              IF k = 0 THEN 0 ELSE ReadPairs(s, k)

\* s is exactly one complete value
WellFormed(s) == ReadValue(s, 1) = Len(s) + 1

-----------------------------------------------------------------------------
(* The claims *)

Returned == ev.at \in {"call", "return"}
Failed == Returned /\ ev.res # Ok

\* C1: if get_output returns success, the bytes it returns are exactly one
\* complete well-formed value: every 'l' and 'd' is closed by its own 'e'
\* and in every dictionary each key is a byte string followed by one value.
C1_OutputWellFormed ==
    (pc = "done" /\ ev.res = Ok) => WellFormed(got)

\* C2: once an operation of an Encoder has returned an error, the next
\* operation called on that Encoder returns the identical error and leaves
\* the output buffer as it was.
C2_ErrorIsSticky ==
    [][(/\ ev.op \in EncoderOps /\ Failed
        /\ ev'.op \in EncoderOps \cup {"get_output"}
        /\ ev'.at \in {"call", "enter"})
       => (ev'.res = ev.res /\ Top(encs').output = Top(encs).output)]_vars

\* the containers whose build callback is running
OpenContainers ==
    Cardinality({i \in 1..Len(calls) :
                    calls[i].kind \in {"list", "dict", "udict"}})

RECURSIVE KeyBytesIn(_)
KeyBytesIn(cs) ==
    IF cs = <<>> THEN 0
    ELSE (IF Head(cs).kind = "pair"
          THEN Len(TokenBytes(Token("String", Head(cs).key))) ELSE 0)
         + KeyBytesIn(Tail(cs))

\* nothing has been written but the open tokens of the containers now open
\* and the keys of the sorted pairs now open: the containers are nested
\* directly inside one another
DirectlyNested == Buffered = OpenContainers + KeyBytesIn(calls)

RefusedOpen == ev.op \in ContainerOps /\ ev.at = "call" /\ ev.res # Ok

\* C3: with maximum depth D, containers nested directly inside one another
\* open up to depth D, the open at depth D+1 fails with DepthExceeded and
\* writes no byte; with D = 0 a scalar at the root is accepted and every
\* container is refused.
C3_DepthLimit ==
    /\ OpenContainers <= cfg.max_depth
    /\ RefusedOpen => Cur.output = ev.out0
    /\ (RefusedOpen /\ ev.err0 = Ok /\ DirectlyNested)
          => (ev.res = "DepthExceeded" /\ OpenContainers = cfg.max_depth)
    /\ (/\ cfg.max_depth = 0 /\ ev.op \in {"emit_int", "emit_str"}
        /\ ev.out0 = <<>> /\ ev.err0 = Ok)
          => ev.res = Ok

PairBytes(p) ==
    TokenBytes(Token("String", p.key)) \o <<CH_i>> \o write_to(p.val)
        \o <<CH_e>>

RECURSIVE PairsBytes(_)
PairsBytes(ps) ==
    IF ps = <<>> THEN <<>> ELSE PairBytes(Head(ps)) \o PairsBytes(Tail(ps))

DictBytes(ps) == <<CH_d>> \o PairsBytes(ps) \o <<CH_e>>

\* C4: emit_dict whose build callback calls emit_pair n times, each with a
\* value callback that emits one integer, returns success for every n; the
\* output is then 'd', the pairs in call order (key, then value), 'e', and
\* get_output returns exactly that.
C4_SortedDictBuilds ==
    /\ (ev.op = "emit_dict" /\ ev.at = "return" /\ ev.built = "emit_dict")
          => (ev.res = Ok /\ Cur.output = ev.out0 \o DictBytes(ev.ints))
    /\ (pc = "done" /\ ev.built = "emit_dict")
          => (ev.res = Ok /\ got = DictBytes(ev.ints))

\* the pairs of ps in ascending byte-lexicographic order of their keys
RECURSIVE SortByKey(_)
SortByKey(ps) ==
    IF ps = <<>> THEN <<>>
    ELSE LET i == CHOOSE i \in 1..Len(ps) :
                     \A j \in 1..Len(ps) : ~LexLess(ps[j].key, ps[i].key)
         IN  <<ps[i]>> \o SortByKey(SubSeq(ps, 1, i - 1)
                                    \o SubSeq(ps, i + 1, Len(ps)))

\* C5: for distinct keys with one integer each, in any insertion order,
\* emit_unsorted_dict then get_output succeeds and returns the bytes that
\* emit_dict, given the pairs in ascending key order, then get_output
\* returns, which succeeds too.
C5_UnsortedEqualsSorted ==
    (pc = "done" /\ ev.built = "emit_unsorted_dict")
       => LET s == sorted_dict_run(cfg.max_depth, SortByKey(ev.ints)) IN
          ev.res = Ok /\ s.res = Ok /\ got = s.bytes

RootComplete ==
    pc = "run" /\ Where = "root" /\ Cur.state.stack = <<>> /\ Cur.state.done

\* s is two complete values, one after the other
TwoValues(s) ==
    \E k \in 1..Len(s) :
       WellFormed(SubSeq(s, 1, k)) /\ WellFormed(SubSeq(s, k + 1, Len(s)))

\* C7: once one complete root value has been emitted, every further emit
\* operation at the root fails with ExtraTopLevelValue and appends no byte;
\* a successful get_output never returns two values one after the other.
C7_OneRootValue ==
    /\ [][(RootComplete /\ ev'.op \in EncoderOps)
             => /\ ev'.res = "ExtraTopLevelValue"
                /\ encs'[1].output = encs[1].output
                /\ calls' = <<>>]_vars
    /\ []((pc = "done" /\ ev.res = Ok) => ~TwoValues(got))

C7_Witness ==
    /\ RootComplete /\ ev.op \in ContainerOps
    /\ ev.res = "ExtraTopLevelValue" /\ ev.err0 = Ok

\* C8: when emit_unsorted_dict returns the DuplicateKey error, the output
\* buffer is the buffer of before the call: no byte of that dictionary.
C8_DuplicateKeyNoOutput ==
    (ev.op = "emit_unsorted_dict" /\ ev.at = "return"
        /\ ev.res = "DuplicateKey")
       => Cur.output = ev.out0

\* C9: a sorted emit_pair whose value callback returns without emitting a
\* value fails with the 'no value emitted' error and latches it on the
\* Encoder, the buffer being what it was at the call plus the key; while
\* that error is latched every step on the Encoder fails and leaves the
\* buffer as it is.
C9_NoValueEmitted ==
    [][/\ (/\ pc = "run" /\ Where = "pair" /\ ~Top(calls).value_written
           /\ ev'.op = "emit_pair" /\ ev'.at = "return")
          => /\ ev'.res = "NoValueEmitted"
             /\ Top(encs').state.err = "NoValueEmitted"
             /\ Top(encs').output =
                   Top(calls).out0
                      \o TokenBytes(Token("String", Top(calls).key))
       /\ (pc = "run" /\ Cur.state.err = "NoValueEmitted")
          => /\ ev'.res \notin {Ok, "pending"}
             /\ Len(encs') = Len(encs) => Top(encs').output = Cur.output
             /\ Len(encs') = Len(encs)
                   => Top(encs').state.err = "NoValueEmitted"]_vars

C9_Witness ==
    /\ pc = "done" /\ ev.res = "NoValueEmitted"
    /\ \E p \in 1..Len(Cur.output) :
          SubSeq(Cur.output, 1, p) = <<CH_d>> \o PairBytes([key |-> <<97>>,
                                                            val |-> 25])
          /\ p < Len(Cur.output)

\* C10 as stated: when an Encoder operation returns an error because the
\* automaton refused its token, the buffer is what it was before the call.
C10_RefusedLeavesBufferOfCall ==
    (ev.op \in EncoderOps /\ Returned /\ ev.rej) => Cur.output = ev.out0

\* C10, amended: a token the automaton refuses appends no byte: the buffer
\* after the step that offered it is the buffer before that step, and for a
\* scalar or a refused open token that is the buffer before the call.
C10_RefusedTokenWritesNothing ==
    [][(ev'.op \in EncoderOps /\ ev'.rej)
          => /\ Len(encs') = Len(encs)
             /\ Top(encs').output = Cur.output
             /\ ev'.at = "call" => Top(encs').output = ev'.out0]_vars

C10_Witness ==
    /\ ev.op \in ContainerOps /\ ev.at = "return" /\ ev.rej
    /\ Cur.output # ev.out0

\* the ways to list the keys of S in strictly ascending byte-lexicographic
\* order, each key once
KeyOrders(S) ==
    {ks \in [1..Cardinality(S) -> S] :
        \A i, j \in 1..Cardinality(S) : i < j => LexLess(ks[i], ks[j])}

\* the entries of the keys ks: each key as a byte string, then its staged
\* bytes
RECURSIVE EntriesBytes(_, _)
EntriesBytes(content, ks) ==
    IF ks = <<>> THEN <<>>
    ELSE TokenBytes(Token("String", Head(ks))) \o content[Head(ks)]
            \o EntriesBytes(content, Tail(ks))

\* C11: an unsorted emit_pair that succeeds stages the bytes its value
\* callback produced under its key; when the build callback of
\* emit_unsorted_dict succeeds with no error in the builder, the operation
\* succeeds
\* for every number of entries and appends the entries in strictly
\* ascending key order, each once, as key then staged bytes, then 'e', and
\* the dictionary's frame is popped.
C11_FlushSortedEntries ==
    [][/\ (/\ pc = "run" /\ Where = "upair"
           /\ ev'.op = "unsorted_emit_pair" /\ ev'.at = "return"
           /\ ev'.res = Ok)
          => /\ Top(calls).key \notin DOMAIN Top(Pop(calls)).content
             /\ Top(calls').content =
                   (Top(calls).key :> Cur.output) @@ Top(Pop(calls)).content
       /\ (/\ pc = "run" /\ Where = "udict" /\ Top(calls).error = Ok
           /\ ev'.op = "emit_unsorted_dict" /\ ev'.at = "return"
           /\ ev'.ret = Ok)
          => /\ ev'.res = Ok
             /\ Top(encs').state.stack = Pop(Cur.state.stack)
             /\ \E ks \in KeyOrders(DOMAIN Top(calls).content) :
                   Top(encs').output =
                      Cur.output \o EntriesBytes(Top(calls).content, ks)
                                 \o <<CH_e>>]_vars

\* keys inserted as b then a, flushed as a then b
C11_Witness ==
    /\ ev.op = "emit_unsorted_dict" /\ ev.at = "return" /\ ev.res = Ok
    /\ ev.built = "emit_unsorted_dict"
    /\ Len(ev.ints) = Cardinality(KeyVals)
    /\ ev.ints # SortByKey(ev.ints)
    /\ Cur.output = ev.out0 \o DictBytes(SortByKey(ev.ints))

\* the containers open in the output of the caller's Encoder: those whose
\* build callback is running outside every staged value
OpenInOutput ==
    Cardinality({i \in 1..Len(calls) :
                    /\ calls[i].kind \in {"list", "dict", "udict"}
                    /\ \A j \in 1..i : calls[j].kind # "upair"})

\* C12: the automaton installed for the value of a sorted emit_pair has the
\* remaining depth of the automaton set aside as its maximum depth, and
\* the containers open at once in the output never exceed the maximum
\* depth D the Encoder was configured with.
C12_PairValueInheritsDepth ==
    /\ (pc = "run" /\ Where = "pair" /\ ev.at = "enter")
          => Cur.state.max_depth = remaining_depth(Top(calls).old_state)
    /\ OpenInOutput <= cfg.max_depth

Staging == \E i \in 1..Len(calls) : calls[i].kind = "upair"

\* C13: the sub-Encoder of a staged value has the parent's remaining depth,
\* taken after the dictionary was opened, as its maximum depth; while a
\* value is being staged the containers open in the parent and inside the
\* staged value together never exceed the configured maximum D; and a
\* builder whose remaining depth is 0 stages only scalars.
C13_StagingKeepsDepthLimit ==
    /\ (pc = "run" /\ Where = "upair" /\ ev.at = "enter")
          => /\ Cur.state.max_depth = Top(Pop(calls)).remaining_depth
             /\ Cur.state.max_depth = remaining_depth(Top(Pop(encs)).state)
    /\ Staging => OpenContainers <= cfg.max_depth
    /\ \A i \in 1..Len(calls) :
          (calls[i].kind = "udict" /\ calls[i].remaining_depth = 0)
             => \A k \in DOMAIN calls[i].content :
                   calls[i].content[k][1] \notin {CH_l, CH_d}

\* the staging builder whose build callback is running, or whose emit_pair
\* is running its value callback
Builder == IF Where = "upair" THEN Top(Pop(calls)) ELSE Top(calls)

\* C14: an unsorted emit_pair fails when its value callback returns a
\* failure, writes no value, latches an error on the sub-Encoder or leaves
\* bytes that are not one complete value; a failed emit_pair (a duplicate
\* key included) records its error in the builder and stages nothing; an
\* emit_pair on a builder that holds an error returns that error without
\* running its callback; emit_unsorted_dict on such a builder writes
\* nothing and returns that error when the build callback returned it or
\* returned success.
C14_StagingFailureIsRecorded ==
    [][/\ (pc = "run" /\ Where = "upair" /\ ev'.op = "unsorted_emit_pair")
          => /\ (\/ ev'.ret # Ok
                 \/ ~Top(calls).value_written
                 \/ check_error(Cur.state) # Ok
                 \/ ~WellFormed(Cur.output)) => ev'.res # Ok
             /\ ev'.res # Ok
                   => /\ Top(calls').error = ev'.res
                      /\ Top(calls').content = Builder.content
       /\ (pc = "run" /\ Where = "udict" /\ ev'.op = "unsorted_emit_pair"
              /\ ev'.at = "call")
          => /\ ev'.res # Ok
             /\ Top(calls').error = ev'.res
             /\ Top(calls').content = Builder.content
       /\ (pc = "run" /\ Where = "udict" /\ Builder.error # Ok
              /\ ev'.op = "unsorted_emit_pair")
          => /\ ev'.at = "call"
             /\ ev'.res = Builder.error
             /\ encs' = encs
       /\ (pc = "run" /\ Where = "udict" /\ Builder.error # Ok
              /\ ev'.op = "emit_unsorted_dict")
          => /\ Top(encs').output = Cur.output
             /\ ev'.res # Ok
             /\ ev'.ret \in {Ok, Builder.error} => ev'.res = Builder.error]_vars

\* the token that starts at byte i of s, and the index after it
TokenAt(s, i) ==
    IF s[i] = CH_l THEN [kind |-> "List", next |-> i + 1]
    ELSE IF s[i] = CH_d THEN [kind |-> "Dict", next |-> i + 1]
    ELSE IF s[i] = CH_e THEN [kind |-> "End", next |-> i + 1]
    ELSE IF s[i] = CH_i THEN [kind |-> "Num", next |-> ReadInt(s, i)]
    ELSE [kind |-> "String", next |-> ReadString(s, i)]

\* the automaton after the tokens of s[i..] have been observed in st
RECURSIVE Replay(_, _, _)
Replay(s, i, st) ==
    IF i > Len(s) \/ i = 0 THEN st
    ELSE Replay(s, TokenAt(s, i).next,
                observe_token(st, Token(TokenAt(s, i).kind, <<>>)).state)

\* the frames of the containers opened and not closed in s: a dictionary's
\* frame expects a value exactly when the last thing in it is a key
FramesOf(s) == Replay(s, 1, set_max_depth(NewTracker, Len(s) + 1)).stack

\* the Encoder in use has its own automaton installed: no sorted emit_pair
\* is running its value callback on it
OwnAutomaton ==
    \A i \in 1..Len(calls) :
       calls[i].kind = "pair"
          => \E j \in (i + 1)..Len(calls) : calls[j].kind = "upair"

\* C15: between operations, on an Encoder with its own automaton installed
\* and no error latched, the automaton's stack is the frames of the
\* containers opened and not closed in the buffer, a dictionary's frame
\* expecting a value exactly when the dictionary ends in a key; after a
\* sorted emit_pair that wrote one value returns success, the enclosing
\* dictionary's frame expects a key.
C15_LockStep ==
    /\ (pc = "run" /\ OwnAutomaton /\ check_error(Cur.state) = Ok)
          => Cur.state.stack = FramesOf(Cur.output)
    /\ (/\ ev.op = "emit_pair" /\ ev.at = "return" /\ ev.res = Ok
        /\ FramesOf(Cur.output) # <<>>
        /\ Top(FramesOf(Cur.output)) = "DictExpectingKey")
          => Top(Cur.state.stack) = "DictExpectingKey"

\* C16: when the build callback of emit_list, emit_dict or
\* emit_unsorted_dict returns a failure, the operation returns that failure
\* and writes nothing, the close token included; and once that has happened
\* anywhere in the run, get_output never succeeds.
C16_EarlyReturnIsSafe ==
    [][/\ (ev'.op \in ContainerOps /\ ev'.at = "return" /\ ev'.ret # Ok)
          => /\ ev'.res = ev'.ret
             /\ Top(encs').output = Cur.output
       /\ (ev'.op = "get_output" /\ ev.early) => ev'.res # Ok]_vars

IsPrefix(a, b) == Len(a) <= Len(b) /\ SubSeq(b, 1, Len(a)) = a

\* C17: in every step, of every operation and inside every callback, the
\* buffer of each Encoder that lives through the step is a prefix of its
\* buffer after the step; the key written by a sorted emit_pair stays when
\* the pair fails.
C17_AppendOnly ==
    [][/\ \A i \in 1..Len(encs) :
             i <= Len(encs') => IsPrefix(encs[i].output, encs'[i].output)
       /\ (pc = "run" /\ Where = "pair" /\ ev'.op = "emit_pair")
          => IsPrefix(Top(calls).out0
                         \o TokenBytes(Token("String", Top(calls).key)),
                      Top(encs').output)]_vars

\* a sorted emit_pair has failed and its key is in the buffer
C17_Witness ==
    /\ ev.op = "emit_pair" /\ ev.at = "return" /\ ev.res # Ok
    /\ Len(Cur.output) > Len(ev.out0)
    /\ IsPrefix(ev.out0, Cur.output)

\* C18: a sorted emit_pair sets aside the automaton as it is right after
\* the key was observed, and whatever its value callback does and returns,
\* the automaton installed when it returns is the one set aside, with the
\* same frames and the same maximum depth; an error latched in the
\* temporary automaton is then latched on it and returned.
C18_PairReinstallsAutomaton ==
    [][/\ (pc = "run" /\ Where = "dict" /\ ev'.op = "emit_pair"
              /\ ev'.at = "enter")
          => /\ Top(calls').old_state =
                   observe_token(Cur.state,
                                 Token("String", Top(calls').key)).state
             /\ Len(Top(calls').old_state.stack) = Len(Cur.state.stack)
             /\ Top(calls').old_state.max_depth = Cur.state.max_depth
       /\ (pc = "run" /\ Where = "pair" /\ ev'.op = "emit_pair")
          => /\ ev'.at = "return"
             /\ Top(encs').state.stack = Top(calls).old_state.stack
             /\ Top(encs').state.max_depth = Top(calls).old_state.max_depth
             /\ Top(encs').state.done = Top(calls).old_state.done
             /\ check_error(Cur.state) # Ok
                   => /\ check_error(Top(encs').state) = check_error(Cur.state)
                      /\ ev'.res = check_error(Cur.state)]_vars

\* an emit_pair has returned the error its value latched while its callback
\* returned success, inside a dictionary that is itself a pair's value
C18_Witness ==
    /\ ev.op = "emit_pair" /\ ev.at = "return" /\ ev.ret = Ok
    /\ ev.res \notin {Ok, "NoValueEmitted"}
    /\ check_error(Cur.state) = ev.res
    /\ Cur.state.stack # <<>>
    /\ Cur.state.max_depth = cfg.max_depth

====
